---- MODULE Spec2Model ----
(***************************************************************************)
(* txt::FontCollection (engine/src/flutter/txt/src/txt/font_collection.cc) *)
(* Four font-manager slots, the fallback flag and the lazily built, cached *)
(* skia::textlayout::FontCollection.                                       *)
(***************************************************************************)
EXTENDS Integers, Sequences, FiniteSets, TLC

\* ---- bounds ------------------------------------------------------------
\* number of distinct non-null sk_sp<SkFontMgr> handles a caller may pass
NumHandles == 2
\* number of skia FontCollection objects the allocator hands out
MaxBuilds == 2
\* largest font_initialization_data value passed to SetupDefaultFontManager
MaxInitData == 0

\* ---- values ------------------------------------------------------------
\* a null sk_sp<SkFontMgr>
Null == 0
Handles == 1..NumHandles
FontMgrs == {Null} \cup Handles
InitData == 0..MaxInitData

\* the lists GetDefaultFontFamilies() of txt/platform.h can return
PlatformFamilyLists == {<<"Roboto">>, <<"Arial", "Helvetica">>}
\* the family names the text shaper asks the composite for
FamilyNames == {"Roboto"}

\* a null sk_sp<skia::textlayout::FontCollection>
NullSkt == [id |-> 0]

VARIABLES
  default_font_manager_,   \* sk_sp<SkFontMgr>
  asset_font_manager_,     \* sk_sp<SkFontMgr>
  dynamic_font_manager_,   \* sk_sp<SkFontMgr>
  test_font_manager_,      \* sk_sp<SkFontMgr>
  enable_font_fallback_,   \* bool
  skt_collection_,         \* sk_sp<skia::textlayout::FontCollection>
  next_id,                 \* identity of the next object sk_make_sp allocates
  platform_families,       \* what GetDefaultFontFamilies() returns now
  lastCall,                \* the most recent call: name, argument, results
  returned,                \* identity returned by the latest CreateSktFontCollection
  since,                   \* kinds of mutators called since that return
  disable_called,          \* DisableFontFallback has been called
  families_at_setup,       \* GetDefaultFontFamilies() as it was at the latest
                           \* SetupDefaultFontManager (<<>> before the first)
  pc_create,               \* where a thread stands in CreateSktFontCollection
  pc_set,                  \* where a second thread stands in SetAssetFontManager
  overlapped               \* the two threads' calls have overlapped since the
                           \* running or latest CreateSktFontCollection began

slots == <<default_font_manager_, asset_font_manager_,
           dynamic_font_manager_, test_font_manager_>>
registry == <<default_font_manager_, asset_font_manager_, dynamic_font_manager_,
              test_font_manager_, enable_font_fallback_, skt_collection_>>
vars == <<default_font_manager_, asset_font_manager_, dynamic_font_manager_,
          test_font_manager_, enable_font_fallback_, skt_collection_, next_id,
          platform_families, lastCall, returned, since, disable_called,
          families_at_setup, pc_create, pc_set, overlapped>>
threads == <<pc_create, pc_set, overlapped>>

\* ---- skia::textlayout::FontCollection ----------------------------------
\* sk_make_sp<skia::textlayout::FontCollection>(): a fresh object
SktNew(id) ==
  [id |-> id, default |-> Null, families |-> <<>>, asset |-> Null,
   dynamic |-> Null, test |-> Null, fallback |-> TRUE, caches |-> {}]

SktSetDefaultFontManager(c, fm, families) ==
  [c EXCEPT !.default = fm, !.families = families]

SktSetAssetFontManager(c, fm) == [c EXCEPT !.asset = fm]

SktSetDynamicFontManager(c, fm) == [c EXCEPT !.dynamic = fm]

SktSetTestFontManager(c, fm) == [c EXCEPT !.test = fm]

SktDisableFontFallback(c) == [c EXCEPT !.fallback = FALSE]

SktClearCaches(c) == [c EXCEPT !.caches = {}]

\* a family lookup through the composite memoizes its result
SktFindTypefaces(c, family) == [c EXCEPT !.caches = @ \cup {family}]

\* the pointer value of an sk_sp (0 for null)
Ref(c) == c.id

\* ---- platform (txt/platform.h) -----------------------------------------
\* the handles GetDefaultFontManager(font_initialization_data) can return:
\* platform dependent, possibly empty
GetDefaultFontManager(font_initialization_data) == FontMgrs

\* ---- call history ------------------------------------------------------
NoOrder == <<>>

\* op: the function called; arg: the sk_sp<SkFontMgr> it stored (setters);
\* id: the identity it returned and built: whether it allocated it
\* (CreateSktFontCollection); count, order: the results of the two queries
Call(op, arg, id, built, count, order) ==
  [op |-> op, arg |-> arg, id |-> id, built |-> built, count |-> count,
   order |-> order]

Setters == {"SetupDefaultFontManager", "SetDefaultFontManager",
            "SetAssetFontManager", "SetDynamicFontManager",
            "SetTestFontManager"}

\* ---- FontCollection::FontCollection ------------------------------------
Init ==
  /\ default_font_manager_ = Null
  /\ asset_font_manager_ = Null
  /\ dynamic_font_manager_ = Null
  /\ test_font_manager_ = Null
  /\ enable_font_fallback_ = TRUE
  /\ skt_collection_ = NullSkt
  /\ next_id = 1
  /\ platform_families \in PlatformFamilyLists
  /\ lastCall = Call("FontCollection", Null, 0, FALSE, 0, NoOrder)
  /\ returned = 0
  /\ since = {}
  /\ disable_called = FALSE
  /\ families_at_setup = <<>>
  /\ pc_create = "idle"
  /\ pc_set = "idle"
  /\ overlapped = FALSE

\* GetFontManagerOrder with the asset manager queried before the dynamic one
GetFontManagerOrder_AssetFirst ==
  LET o0 == <<>>
      o1 == IF asset_font_manager_ # Null
            THEN Append(o0, asset_font_manager_) ELSE o0
      o2 == IF dynamic_font_manager_ # Null
            THEN Append(o1, dynamic_font_manager_) ELSE o1
      o3 == IF test_font_manager_ # Null
            THEN Append(o2, test_font_manager_) ELSE o2
      o4 == IF default_font_manager_ # Null
            THEN Append(o3, default_font_manager_) ELSE o3
  IN  o4

\* ---- FontCollection::GetFontManagerOrder -------------------------------
GetFontManagerOrder ==
  LET o0 == <<>>
      o1 == IF dynamic_font_manager_ # Null
            THEN Append(o0, dynamic_font_manager_) ELSE o0
      o2 == IF asset_font_manager_ # Null
            THEN Append(o1, asset_font_manager_) ELSE o1
      o3 == IF test_font_manager_ # Null
            THEN Append(o2, test_font_manager_) ELSE o2
      o4 == IF default_font_manager_ # Null
            THEN Append(o3, default_font_manager_) ELSE o3
  IN  o4

\* GetFontManagersCount counting the slots instead of the managers present
GetFontManagersCount_AllSlots == Len(slots)

\* ---- FontCollection::GetFontManagersCount ------------------------------
GetFontManagersCount == Len(GetFontManagerOrder)

\* GetFontManagerOrder that drops the cached composite
GetFontManagerOrderCall_Invalidates ==
  /\ skt_collection_' = NullSkt
  /\ lastCall' = Call("GetFontManagerOrder", Null, 0, FALSE, 0,
                      GetFontManagerOrder)
  /\ UNCHANGED <<slots, enable_font_fallback_, next_id, platform_families,
                 returned, since, disable_called>>
  /\ UNCHANGED families_at_setup
  /\ UNCHANGED threads

\* the two queries as calls: they return and assign nothing
GetFontManagerOrderCall ==
  /\ lastCall' = Call("GetFontManagerOrder", Null, 0, FALSE, 0,
                      GetFontManagerOrder)
  /\ UNCHANGED <<registry, next_id, platform_families, returned, since,
                 disable_called>>
  /\ UNCHANGED families_at_setup
  /\ UNCHANGED threads

GetFontManagersCountCall ==
  /\ lastCall' = Call("GetFontManagersCount", Null, 0, FALSE,
                      GetFontManagersCount, NoOrder)
  /\ UNCHANGED <<registry, next_id, platform_families, returned, since,
                 disable_called>>
  /\ UNCHANGED families_at_setup
  /\ UNCHANGED threads

\* ---- the slot setters --------------------------------------------------
SetupDefaultFontManager ==
  \E font_initialization_data \in InitData :
    \E fm \in GetDefaultFontManager(font_initialization_data) :
      /\ default_font_manager_' = fm
      /\ skt_collection_' = NullSkt
      /\ lastCall' = Call("SetupDefaultFontManager", fm, 0, FALSE, 0, NoOrder)
      /\ since' = since \cup {"setter"}
      /\ UNCHANGED <<asset_font_manager_, dynamic_font_manager_,
                     test_font_manager_, enable_font_fallback_, next_id,
                     platform_families, returned, disable_called>>
      /\ families_at_setup' = platform_families
      /\ UNCHANGED threads

SetDefaultFontManager ==
  \E font_manager \in FontMgrs :
    /\ default_font_manager_' = font_manager
    /\ skt_collection_' = NullSkt
    /\ lastCall' = Call("SetDefaultFontManager", font_manager, 0, FALSE, 0, NoOrder)
    /\ since' = since \cup {"setter"}
    /\ UNCHANGED <<asset_font_manager_, dynamic_font_manager_,
                   test_font_manager_, enable_font_fallback_, next_id,
                   platform_families, returned, disable_called>>
    /\ UNCHANGED families_at_setup
    /\ UNCHANGED threads

\* SetAssetFontManager without skt_collection_.reset()
SetAssetFontManager_NoReset ==
  \E font_manager \in FontMgrs :
    /\ asset_font_manager_' = font_manager
    /\ lastCall' = Call("SetAssetFontManager", font_manager, 0, FALSE, 0, NoOrder)
    /\ since' = since \cup {"setter"}
    /\ UNCHANGED <<default_font_manager_, dynamic_font_manager_,
                   test_font_manager_, enable_font_fallback_, skt_collection_,
                   next_id, platform_families, returned, disable_called>>
    /\ UNCHANGED families_at_setup
    /\ UNCHANGED threads

SetAssetFontManager ==
  \E font_manager \in FontMgrs :
    /\ asset_font_manager_' = font_manager
    /\ skt_collection_' = NullSkt
    /\ lastCall' = Call("SetAssetFontManager", font_manager, 0, FALSE, 0, NoOrder)
    /\ since' = since \cup {"setter"}
    /\ UNCHANGED <<default_font_manager_, dynamic_font_manager_,
                   test_font_manager_, enable_font_fallback_, next_id,
                   platform_families, returned, disable_called>>
    /\ UNCHANGED families_at_setup
    /\ UNCHANGED threads

\* SetDynamicFontManager without skt_collection_.reset()
SetDynamicFontManager_NoReset ==
  \E font_manager \in FontMgrs :
    /\ dynamic_font_manager_' = font_manager
    /\ lastCall' = Call("SetDynamicFontManager", font_manager, 0, FALSE, 0, NoOrder)
    /\ since' = since \cup {"setter"}
    /\ UNCHANGED <<default_font_manager_, asset_font_manager_,
                   test_font_manager_, enable_font_fallback_, skt_collection_,
                   next_id, platform_families, returned, disable_called>>
    /\ UNCHANGED families_at_setup
    /\ UNCHANGED threads

SetDynamicFontManager ==
  \E font_manager \in FontMgrs :
    /\ dynamic_font_manager_' = font_manager
    /\ skt_collection_' = NullSkt
    /\ lastCall' = Call("SetDynamicFontManager", font_manager, 0, FALSE, 0, NoOrder)
    /\ since' = since \cup {"setter"}
    /\ UNCHANGED <<default_font_manager_, asset_font_manager_,
                   test_font_manager_, enable_font_fallback_, next_id,
                   platform_families, returned, disable_called>>
    /\ UNCHANGED families_at_setup
    /\ UNCHANGED threads

\* SetTestFontManager that keeps the old manager when handed a null one
SetTestFontManager_IgnoreNull ==
  \E font_manager \in FontMgrs :
    /\ test_font_manager_' = IF font_manager # Null THEN font_manager
                             ELSE test_font_manager_
    /\ skt_collection_' = NullSkt
    /\ lastCall' = Call("SetTestFontManager", font_manager, 0, FALSE, 0, NoOrder)
    /\ since' = since \cup {"setter"}
    /\ UNCHANGED <<default_font_manager_, asset_font_manager_,
                   dynamic_font_manager_, enable_font_fallback_, next_id,
                   platform_families, returned, disable_called>>
    /\ UNCHANGED families_at_setup
    /\ UNCHANGED threads

SetTestFontManager ==
  \E font_manager \in FontMgrs :
    /\ test_font_manager_' = font_manager
    /\ skt_collection_' = NullSkt
    /\ lastCall' = Call("SetTestFontManager", font_manager, 0, FALSE, 0, NoOrder)
    /\ since' = since \cup {"setter"}
    /\ UNCHANGED <<default_font_manager_, asset_font_manager_,
                   dynamic_font_manager_, enable_font_fallback_, next_id,
                   platform_families, returned, disable_called>>
    /\ UNCHANGED families_at_setup
    /\ UNCHANGED threads

\* DisableFontFallback that records the flag and leaves the composite alone
DisableFontFallback_FlagOnly ==
  /\ enable_font_fallback_' = FALSE
  /\ lastCall' = Call("DisableFontFallback", Null, 0, FALSE, 0, NoOrder)
  /\ since' = since \cup {"disable"}
  /\ disable_called' = TRUE
  /\ UNCHANGED <<slots, skt_collection_, next_id, platform_families, returned>>
  /\ UNCHANGED families_at_setup
  /\ UNCHANGED threads

\* DisableFontFallback that disables the composite's fallback and forgets
\* the flag
DisableFontFallback_CompositeOnly ==
  /\ skt_collection_' = IF skt_collection_ # NullSkt
                        THEN SktDisableFontFallback(skt_collection_)
                        ELSE skt_collection_
  /\ lastCall' = Call("DisableFontFallback", Null, 0, FALSE, 0, NoOrder)
  /\ since' = since \cup {"disable"}
  /\ disable_called' = TRUE
  /\ UNCHANGED <<slots, enable_font_fallback_, next_id, platform_families,
                 returned>>
  /\ UNCHANGED families_at_setup
  /\ UNCHANGED threads

\* ---- FontCollection::DisableFontFallback -------------------------------
DisableFontFallback ==
  /\ enable_font_fallback_' = FALSE
  /\ skt_collection_' = IF skt_collection_ # NullSkt
                        THEN SktDisableFontFallback(skt_collection_)
                        ELSE skt_collection_
  /\ lastCall' = Call("DisableFontFallback", Null, 0, FALSE, 0, NoOrder)
  /\ since' = since \cup {"disable"}
  /\ disable_called' = TRUE
  /\ UNCHANGED <<slots, next_id, platform_families, returned>>
  /\ UNCHANGED families_at_setup
  /\ UNCHANGED threads

\* ClearFontFamilyCache that drops the composite instead of its caches
ClearFontFamilyCache_Reset ==
  /\ skt_collection_' = NullSkt
  /\ lastCall' = Call("ClearFontFamilyCache", Null, 0, FALSE, 0, NoOrder)
  /\ since' = since \cup {"clear"}
  /\ UNCHANGED <<slots, enable_font_fallback_, next_id, platform_families,
                 returned, disable_called>>
  /\ UNCHANGED families_at_setup
  /\ UNCHANGED threads

\* ClearFontFamilyCache that obtains the composite from the accessor, so
\* that it builds one when none is cached
ClearFontFamilyCache_Builds ==
  /\ skt_collection_ = NullSkt => next_id <= MaxBuilds
  /\ skt_collection_' =
       IF skt_collection_ # NullSkt THEN SktClearCaches(skt_collection_)
       ELSE SktClearCaches(
              SktSetDefaultFontManager(SktNew(next_id), default_font_manager_,
                                       platform_families))
  /\ next_id' = IF skt_collection_ = NullSkt THEN next_id + 1 ELSE next_id
  /\ lastCall' = Call("ClearFontFamilyCache", Null, 0, FALSE, 0, NoOrder)
  /\ since' = since \cup {"clear"}
  /\ UNCHANGED <<slots, enable_font_fallback_, platform_families, returned,
                 disable_called>>
  /\ UNCHANGED families_at_setup
  /\ UNCHANGED threads

\* ---- FontCollection::ClearFontFamilyCache ------------------------------
ClearFontFamilyCache ==
  /\ skt_collection_' = IF skt_collection_ # NullSkt
                        THEN SktClearCaches(skt_collection_)
                        ELSE skt_collection_
  /\ lastCall' = Call("ClearFontFamilyCache", Null, 0, FALSE, 0, NoOrder)
  /\ since' = since \cup {"clear"}
  /\ UNCHANGED <<slots, enable_font_fallback_, next_id, platform_families,
                 returned, disable_called>>
  /\ UNCHANGED families_at_setup
  /\ UNCHANGED threads

\* ---- FontCollection::CreateSktFontCollection ---------------------------
\* the copying loop stopping one element early
RECURSIVE EmplaceFamilies_DropsLast(_, _)
EmplaceFamilies_DropsLast(families, default_font_families) ==
  IF Len(families) <= 1 THEN default_font_families
  ELSE EmplaceFamilies_DropsLast(Tail(families),
                                 Append(default_font_families, Head(families)))

\* the loop that copies GetDefaultFontFamilies() into a vector of SkString
RECURSIVE EmplaceFamilies(_, _)
EmplaceFamilies(families, default_font_families) ==
  IF families = <<>> THEN default_font_families
  ELSE EmplaceFamilies(Tail(families),
                       Append(default_font_families, Head(families)))

\* a build on every call
NeedsBuild_Always == TRUE

\* no build while no font manager is set
NeedsBuild_OnlyWithProviders ==
  skt_collection_ = NullSkt /\ GetFontManagersCount > 0

\* if (!skt_collection_)
NeedsBuild == skt_collection_ = NullSkt

\* the build without the enable_font_fallback_ test
BuildSkt_IgnoreFlag ==
  LET c0 == SktNew(next_id)
      default_font_families == EmplaceFamilies(platform_families, <<>>)
      c1 == SktSetDefaultFontManager(c0, default_font_manager_,
                                     default_font_families)
      c2 == SktSetAssetFontManager(c1, asset_font_manager_)
      c3 == SktSetDynamicFontManager(c2, dynamic_font_manager_)
      c4 == SktSetTestFontManager(c3, test_font_manager_)
  IN  c4

\* the build with the asset and dynamic managers wired to each other's slot
BuildSkt_SwappedWiring ==
  LET c0 == SktNew(next_id)
      default_font_families == EmplaceFamilies(platform_families, <<>>)
      c1 == SktSetDefaultFontManager(c0, default_font_manager_,
                                     default_font_families)
      c2 == SktSetAssetFontManager(c1, dynamic_font_manager_)
      c3 == SktSetDynamicFontManager(c2, asset_font_manager_)
      c4 == SktSetTestFontManager(c3, test_font_manager_)
      c5 == IF ~enable_font_fallback_ THEN SktDisableFontFallback(c4) ELSE c4
  IN  c5

\* the build with the family list wired only into the first composite
BuildSkt_FamiliesOnFirstBuild ==
  LET c0 == SktNew(next_id)
      default_font_families ==
        IF next_id = 1 THEN EmplaceFamilies(platform_families, <<>>) ELSE <<>>
      c1 == SktSetDefaultFontManager(c0, default_font_manager_,
                                     default_font_families)
      c2 == SktSetAssetFontManager(c1, asset_font_manager_)
      c3 == SktSetDynamicFontManager(c2, dynamic_font_manager_)
      c4 == SktSetTestFontManager(c3, test_font_manager_)
      c5 == IF ~enable_font_fallback_ THEN SktDisableFontFallback(c4) ELSE c4
  IN  c5

\* the body of the if: allocate, wire the four managers, apply the flag
BuildSkt ==
  LET c0 == SktNew(next_id)
      default_font_families == EmplaceFamilies(platform_families, <<>>)
      c1 == SktSetDefaultFontManager(c0, default_font_manager_,
                                     default_font_families)
      c2 == SktSetAssetFontManager(c1, asset_font_manager_)
      c3 == SktSetDynamicFontManager(c2, dynamic_font_manager_)
      c4 == SktSetTestFontManager(c3, test_font_manager_)
      c5 == IF ~enable_font_fallback_ THEN SktDisableFontFallback(c4) ELSE c4
  IN  c5

\* CreateSktFontCollection that moves default_font_manager_ into the
\* composite it builds, leaving the member null
CreateSktFontCollection_MovesDefault ==
  /\ NeedsBuild => next_id <= MaxBuilds
  /\ skt_collection_' = IF NeedsBuild THEN BuildSkt ELSE skt_collection_
  /\ default_font_manager_' = IF NeedsBuild THEN Null
                              ELSE default_font_manager_
  /\ next_id' = IF NeedsBuild THEN next_id + 1 ELSE next_id
  /\ lastCall' = Call("CreateSktFontCollection", Null, Ref(skt_collection_'),
                      NeedsBuild, 0, NoOrder)
  /\ returned' = Ref(skt_collection_')
  /\ since' = {}
  /\ UNCHANGED <<asset_font_manager_, dynamic_font_manager_,
                 test_font_manager_, enable_font_fallback_, platform_families,
                 disable_called>>
  /\ UNCHANGED families_at_setup
  /\ UNCHANGED threads

CreateSktFontCollection ==
  /\ NeedsBuild => next_id <= MaxBuilds
  /\ skt_collection_' = IF NeedsBuild THEN BuildSkt ELSE skt_collection_
  /\ next_id' = IF NeedsBuild THEN next_id + 1 ELSE next_id
  /\ lastCall' = Call("CreateSktFontCollection", Null, Ref(skt_collection_'),
                      NeedsBuild, 0, NoOrder)
  /\ returned' = Ref(skt_collection_')
  /\ since' = {}
  /\ UNCHANGED <<slots, enable_font_fallback_, platform_families,
                 disable_called>>
  /\ UNCHANGED families_at_setup
  /\ UNCHANGED threads

\* ---- environment -------------------------------------------------------
\* the text shaper resolves a family through the cached composite
FindTypefaces ==
  \E family \in FamilyNames :
    /\ skt_collection_ # NullSkt
    /\ skt_collection_' = SktFindTypefaces(skt_collection_, family)
    /\ lastCall' = Call("findTypefaces", Null, 0, FALSE, 0, NoOrder)
    /\ UNCHANGED <<slots, enable_font_fallback_, next_id, platform_families,
                   returned, since, disable_called>>
    /\ UNCHANGED families_at_setup
    /\ UNCHANGED threads

\* the platform's default-family source changes (e.g. the system font)
PlatformFamiliesChange ==
  \E families \in PlatformFamilyLists \ {platform_families} :
    /\ platform_families' = families
    /\ lastCall' = Call("platform", Null, 0, FALSE, 0, NoOrder)
    /\ UNCHANGED <<registry, next_id, returned, since, disable_called>>
    /\ UNCHANGED families_at_setup
    /\ UNCHANGED threads

\* ---- FontCollection::~FontCollection -----------------------------------
\* the destructor body without the clearCaches() call
DestructorBody_NoClear ==
  /\ lastCall' = Call("~FontCollection", Null, 0, FALSE, 0, NoOrder)
  /\ UNCHANGED <<registry, next_id, platform_families, returned, since,
                 disable_called>>
  /\ UNCHANGED families_at_setup
  /\ UNCHANGED threads

\* the destructor body
DestructorBody ==
  /\ skt_collection_' = IF skt_collection_ # NullSkt
                        THEN SktClearCaches(skt_collection_)
                        ELSE skt_collection_
  /\ lastCall' = Call("~FontCollection", Null, 0, FALSE, 0, NoOrder)
  /\ UNCHANGED <<slots, enable_font_fallback_, next_id, platform_families,
                 returned, since, disable_called>>
  /\ UNCHANGED families_at_setup
  /\ UNCHANGED threads

\* after the body the members are destroyed: the registry releases its
\* references to the composite and to the four font managers
MemberDestruction ==
  /\ lastCall.op = "~FontCollection"
  /\ skt_collection_' = NullSkt
  /\ default_font_manager_' = Null
  /\ asset_font_manager_' = Null
  /\ dynamic_font_manager_' = Null
  /\ test_font_manager_' = Null
  /\ lastCall' = Call("~members", Null, 0, FALSE, 0, NoOrder)
  /\ UNCHANGED <<enable_font_fallback_, next_id, platform_families, returned,
                 since, disable_called>>
  /\ UNCHANGED families_at_setup
  /\ UNCHANGED threads

\* the object is constructed and its destructor has not started
Alive == lastCall.op \notin {"~FontCollection", "~members"}

Next ==
  \/ Alive /\ SetupDefaultFontManager
  \/ Alive /\ SetDefaultFontManager
  \/ Alive /\ SetAssetFontManager
  \/ Alive /\ SetDynamicFontManager
  \/ Alive /\ SetTestFontManager
  \/ Alive /\ DisableFontFallback
  \/ Alive /\ ClearFontFamilyCache
  \/ Alive /\ CreateSktFontCollection
  \/ Alive /\ GetFontManagerOrderCall
  \/ Alive /\ GetFontManagersCountCall
  \/ Alive /\ FindTypefaces
  \/ Alive /\ DestructorBody
  \/ MemberDestruction

Spec == Init /\ [][Next]_vars

\* the registry's calls while the platform's default-family source may change
NextPlatform ==
  \/ Next
  \/ Alive /\ PlatformFamiliesChange

SpecPlatform == Init /\ [][NextPlatform]_vars

\* ---- two unsynchronized threads ----------------------------------------
\* One thread runs CreateSktFontCollection and a second one
\* SetAssetFontManager, statement by statement, with no lock between them.
\* pc_create names the line the first thread executes next, pc_set the second
\* one's; "fault" is the first thread dereferencing a null skt_collection_.

\* line 93: if (!skt_collection_)
CreateTest ==
  /\ pc_create = "idle"
  /\ NeedsBuild => next_id <= MaxBuilds
  /\ pc_create' = IF NeedsBuild THEN "L94" ELSE "L110"
  /\ overlapped' = (pc_set # "idle")
  /\ lastCall' = Call("CreateSktFontCollection", Null, 0, NeedsBuild, 0, NoOrder)
  /\ UNCHANGED <<registry, next_id, platform_families, returned, since,
                 disable_called, families_at_setup, pc_set>>

\* line 94 with the new object kept out of skt_collection_
CreateAllocate_NotCached ==
  /\ pc_create = "L94"
  /\ next_id' = next_id + 1
  /\ pc_create' = "L100"
  /\ overlapped' = (overlapped \/ pc_set # "idle")
  /\ UNCHANGED <<registry, platform_families, lastCall, returned, since,
                 disable_called, families_at_setup, pc_set>>

\* line 94: skt_collection_ = sk_make_sp<skia::textlayout::FontCollection>()
CreateAllocate ==
  /\ pc_create = "L94"
  /\ skt_collection_' = SktNew(next_id)
  /\ next_id' = next_id + 1
  /\ pc_create' = "L100"
  /\ overlapped' = (overlapped \/ pc_set # "idle")
  /\ UNCHANGED <<slots, enable_font_fallback_, platform_families, lastCall,
                 returned, since, disable_called, families_at_setup, pc_set>>

\* a call through skt_collection_-> at line `at`, going on to line `to`
CreateWire(at, to, wired) ==
  /\ pc_create = at
  /\ IF skt_collection_ = NullSkt
     THEN /\ pc_create' = "fault"
          /\ skt_collection_' = skt_collection_
     ELSE /\ pc_create' = to
          /\ skt_collection_' = wired
  /\ overlapped' = (overlapped \/ pc_set # "idle")
  /\ UNCHANGED <<slots, enable_font_fallback_, next_id, platform_families,
                 lastCall, returned, since, disable_called, families_at_setup,
                 pc_set>>

\* lines 96-101
CreateWireDefault ==
  CreateWire("L100", "L102",
             SktSetDefaultFontManager(skt_collection_, default_font_manager_,
                                      EmplaceFamilies(platform_families, <<>>)))

\* line 102
CreateWireAsset ==
  CreateWire("L102", "L103",
             SktSetAssetFontManager(skt_collection_, asset_font_manager_))

\* line 103
CreateWireDynamic ==
  CreateWire("L103", "L104",
             SktSetDynamicFontManager(skt_collection_, dynamic_font_manager_))

\* line 104
CreateWireTest ==
  CreateWire("L104", "L105",
             SktSetTestFontManager(skt_collection_, test_font_manager_))

\* lines 105-107
CreateApplyFallback ==
  IF ~enable_font_fallback_
  THEN CreateWire("L105", "L110", SktDisableFontFallback(skt_collection_))
  ELSE /\ pc_create = "L105"
       /\ pc_create' = "L110"
       /\ overlapped' = (overlapped \/ pc_set # "idle")
       /\ UNCHANGED <<registry, next_id, platform_families, lastCall, returned,
                      since, disable_called, families_at_setup, pc_set>>

\* line 110: return skt_collection_
CreateReturn ==
  /\ pc_create = "L110"
  /\ pc_create' = "idle"
  /\ overlapped' = (overlapped \/ pc_set # "idle")
  /\ lastCall' = [lastCall EXCEPT !.id = Ref(skt_collection_)]
  /\ returned' = Ref(skt_collection_)
  /\ since' = {}
  /\ UNCHANGED <<registry, next_id, platform_families, disable_called,
                 families_at_setup, pc_set>>

\* line 46: asset_font_manager_ = std::move(font_manager)
SetAssetWrite ==
  \E font_manager \in FontMgrs :
    /\ pc_set = "idle"
    /\ pc_create # "fault"
    /\ asset_font_manager_' = font_manager
    /\ pc_set' = "L47"
    /\ overlapped' = (overlapped \/ pc_create # "idle")
    /\ UNCHANGED <<default_font_manager_, dynamic_font_manager_,
                   test_font_manager_, enable_font_fallback_, skt_collection_,
                   next_id, platform_families, lastCall, returned, since,
                   disable_called, families_at_setup, pc_create>>

\* line 47: skt_collection_.reset()
SetAssetReset ==
  /\ pc_set = "L47"
  /\ pc_create # "fault"
  /\ skt_collection_' = NullSkt
  /\ pc_set' = "idle"
  /\ overlapped' = (overlapped \/ pc_create # "idle")
  /\ since' = since \cup {"setter"}
  /\ UNCHANGED <<slots, enable_font_fallback_, next_id, platform_families,
                 lastCall, returned, disable_called, families_at_setup,
                 pc_create>>

\* the other calls, made while neither thread is inside a call
Configure ==
  /\ pc_create = "idle" /\ pc_set = "idle"
  /\ \/ SetDynamicFontManager
     \/ DisableFontFallback

NextRace ==
  \/ CreateTest
  \/ CreateAllocate
  \/ CreateWireDefault
  \/ CreateWireAsset
  \/ CreateWireDynamic
  \/ CreateWireTest
  \/ CreateApplyFallback
  \/ CreateReturn
  \/ SetAssetWrite
  \/ SetAssetReset
  \/ Configure

SpecRace == Init /\ [][NextRace]_vars

TypeOK ==
  /\ default_font_manager_ \in FontMgrs
  /\ asset_font_manager_ \in FontMgrs
  /\ dynamic_font_manager_ \in FontMgrs
  /\ test_font_manager_ \in FontMgrs
  /\ enable_font_fallback_ \in BOOLEAN
  /\ Ref(skt_collection_) \in 0..MaxBuilds
  /\ next_id \in 1..(MaxBuilds + 1)
  /\ since \subseteq {"setter", "disable", "clear"}
  /\ pc_create \in {"idle", "L94", "L100", "L102", "L103", "L104", "L105",
                    "L110", "fault"}
  /\ pc_set \in {"idle", "L47"}
  /\ overlapped \in BOOLEAN

\* ---- properties --------------------------------------------------------
IsSet(fm) == fm # Null

\* the four slots in the priority the callers rely on
PriorityOrder == <<dynamic_font_manager_, asset_font_manager_,
                   test_font_manager_, default_font_manager_>>

\* the managers wired into a composite, in the order of slots
Wired(c) == <<c.default, c.asset, c.dynamic, c.test>>

\* C1: in every reachable state GetFontManagerOrder is exactly the non-null
\* slots in the order dynamic, asset, test, default (no placeholder, none
\* missing), whatever the order in which the setters assigned them, and a
\* call of it returns that sequence.
C1_OrderIsPriorityOrder ==
  /\ GetFontManagerOrder = SelectSeq(PriorityOrder, IsSet)
  /\ \A i \in 1..Len(GetFontManagerOrder) : GetFontManagerOrder[i] # Null
  /\ lastCall.op = "GetFontManagerOrder"
       => lastCall.order = SelectSeq(PriorityOrder, IsSet)

\* asset and default set (default assigned to handle 2, asset to handle 1),
\* dynamic and test empty: the call returned [asset, default]
C1_Witness ==
  /\ lastCall.op = "GetFontManagerOrder"
  /\ dynamic_font_manager_ = Null /\ test_font_manager_ = Null
  /\ asset_font_manager_ = 1 /\ default_font_manager_ = 2
  /\ lastCall.order = <<1, 2>>

\* C2: a CreateSktFontCollection call made after an earlier one returned,
\* with no mutator called in between, returns the identity the earlier call
\* returned and allocates nothing; a call allocates only when no composite is
\* cached.
C2_CacheIdentity ==
  [][ /\ (lastCall'.op = "CreateSktFontCollection" /\ returned # 0 /\ since = {})
          => /\ lastCall'.id = returned
             /\ ~lastCall'.built
             /\ next_id' = next_id
             /\ skt_collection_' = skt_collection_
      /\ (lastCall'.op = "CreateSktFontCollection")
          => (lastCall'.built <=> skt_collection_ = NullSkt)
    ]_vars

\* a later call that built nothing returned the one composite ever built,
\* after the shaper had used it
C2_Witness ==
  /\ lastCall.op = "CreateSktFontCollection"
  /\ ~lastCall.built
  /\ lastCall.id = 1 /\ returned = 1 /\ next_id = 2
  /\ skt_collection_.caches # {}

\* C3: when CreateSktFontCollection has returned a composite C and a slot
\* setter has been called since (with any handle), the next
\* CreateSktFontCollection allocates a composite whose identity differs from
\* C and whose four wired managers are the current four slots.
C3_SetterInvalidates ==
  [][ (lastCall'.op = "CreateSktFontCollection" /\ returned # 0
         /\ "setter" \in since)
        => /\ lastCall'.id # returned
           /\ lastCall'.id # 0
           /\ lastCall'.built
           /\ Ref(skt_collection_') = lastCall'.id
           /\ Wired(skt_collection_') = slots'
    ]_vars

\* the second composite, built after a setter followed the return of the
\* first, carries the asset manager that setter stored
C3_Witness ==
  /\ lastCall.op = "CreateSktFontCollection"
  /\ lastCall.built /\ lastCall.id = 2
  /\ asset_font_manager_ = 1
  /\ skt_collection_.asset = 1
  /\ Wired(skt_collection_) = slots

\* C4: in every reachable state GetFontManagersCount equals the length of
\* GetFontManagerOrder, equals the number of non-null slots and lies in 0..4,
\* and a call of it returns that number.
C4_CountConsistency ==
  LET populated == Cardinality({i \in 1..4 : slots[i] # Null})
  IN  /\ GetFontManagersCount = Len(GetFontManagerOrder)
      /\ GetFontManagersCount = populated
      /\ GetFontManagersCount \in 0..4
      /\ lastCall.op = "GetFontManagersCount" => lastCall.count = populated

\* a call that returned 2 with exactly the dynamic and test slots set
C4_Witness ==
  /\ lastCall.op = "GetFontManagersCount"
  /\ lastCall.count = 2
  /\ dynamic_font_manager_ # Null /\ test_font_manager_ # Null
  /\ asset_font_manager_ = Null /\ default_font_manager_ = Null

\* C5: once DisableFontFallback has been called, enable_font_fallback_ is
\* false in every later state and every cached (hence every returned)
\* composite has fallback disabled, rebuilt ones included.
C5_FallbackOneWay ==
  disable_called
    => /\ ~enable_font_fallback_
       /\ skt_collection_ # NullSkt => ~skt_collection_.fallback

\* a call that, after DisableFontFallback, rebuilt the composite (the second
\* allocation) with a manager set, and the rebuilt one has fallback disabled
C5_Witness ==
  /\ disable_called
  /\ lastCall.op = "CreateSktFontCollection"
  /\ lastCall.built /\ lastCall.id = 2
  /\ test_font_manager_ # Null
  /\ ~skt_collection_.fallback

\* C6: ClearFontFamilyCache with a composite C cached leaves C cached with
\* the same identity, wiring, family list and fallback setting and empties its
\* per-family caches, allocating nothing; with no other mutator since C was
\* returned, the next CreateSktFontCollection returns C itself, unchanged.
C6_ClearKeepsComposite ==
  [][ /\ (lastCall'.op = "ClearFontFamilyCache" /\ skt_collection_ # NullSkt)
          => /\ skt_collection_' = [skt_collection_ EXCEPT !.caches = {}]
             /\ next_id' = next_id
      /\ (lastCall'.op = "CreateSktFontCollection" /\ returned # 0
            /\ since = {"clear"})
          => /\ lastCall'.id = returned
             /\ ~lastCall'.built
             /\ skt_collection_' = skt_collection_
             /\ Wired(skt_collection_') = slots'
    ]_vars

\* ClearFontFamilyCache was the only mutator since composite 1 was returned:
\* composite 1 is still cached, wired to a set asset manager, caches empty
C6_Witness ==
  /\ lastCall.op = "ClearFontFamilyCache"
  /\ since = {"clear"}
  /\ returned = 1 /\ Ref(skt_collection_) = 1
  /\ skt_collection_.caches = {}
  /\ skt_collection_.asset # Null

\* C7 as stated: from the Valid state every mutator other than
\* ClearFontFamilyCache, DisableFontFallback included, leaves no composite
\* cached.
C7_EveryMutatorInvalidates ==
  [][ (skt_collection_ # NullSkt
         /\ lastCall'.op \in Setters \cup {"DisableFontFallback"})
        => skt_collection_' = NullSkt
    ]_vars

\* C7 amended: from the Valid state every slot setter leaves no composite
\* cached and the next CreateSktFontCollection allocates a new object, while
\* DisableFontFallback keeps the cached composite, with the same identity.
C7_SettersInvalidateDisableKeeps ==
  [][ /\ (skt_collection_ # NullSkt /\ lastCall'.op \in Setters)
          => skt_collection_' = NullSkt
      /\ (skt_collection_ = NullSkt /\ lastCall'.op = "CreateSktFontCollection")
          => /\ lastCall'.built
             /\ lastCall'.id = next_id
             /\ lastCall'.id # returned
      /\ (skt_collection_ # NullSkt /\ lastCall'.op = "DisableFontFallback")
          => /\ skt_collection_' # NullSkt
             /\ Ref(skt_collection_') = Ref(skt_collection_)
    ]_vars

\* SetDynamicFontManager was the only mutator since composite 1 was
\* returned, and no composite is cached any more
C7_Witness ==
  /\ lastCall.op = "SetDynamicFontManager"
  /\ since = {"setter"}
  /\ returned = 1 /\ next_id = 2
  /\ skt_collection_ = NullSkt

\* C8: DisableFontFallback sets enable_font_fallback_ to false and allocates
\* nothing; a cached composite stays cached, identical but for its fallback,
\* which is disabled at once, and with no other mutator since it was returned
\* the next CreateSktFontCollection returns that same object; with no
\* composite cached none is cached afterwards either.
C8_DisableInPlace ==
  [][ /\ (lastCall'.op = "DisableFontFallback")
          => /\ ~enable_font_fallback_'
             /\ next_id' = next_id
             /\ skt_collection_' =
                  IF skt_collection_ # NullSkt
                  THEN [skt_collection_ EXCEPT !.fallback = FALSE]
                  ELSE NullSkt
      /\ (lastCall'.op = "CreateSktFontCollection" /\ returned # 0
            /\ since = {"disable"})
          => /\ lastCall'.id = returned
             /\ ~lastCall'.built
             /\ ~skt_collection_'.fallback
             /\ skt_collection_' = skt_collection_
    ]_vars

\* DisableFontFallback was the only mutator since composite 1 was returned:
\* composite 1 is still cached, still wired to the slots, fallback disabled
C8_Witness ==
  /\ lastCall.op = "DisableFontFallback"
  /\ since = {"disable"}
  /\ returned = 1 /\ Ref(skt_collection_) = 1
  /\ ~skt_collection_.fallback
  /\ skt_collection_.dynamic # Null
  /\ Wired(skt_collection_) = slots

\* C9: whatever slots are set, a CreateSktFontCollection call returns a
\* non-null composite, which is the one the registry then caches.
C9_CreateReturnsComposite ==
  lastCall.op = "CreateSktFontCollection"
    => /\ lastCall.id # 0
       /\ skt_collection_ # NullSkt
       /\ Ref(skt_collection_) = lastCall.id
       /\ returned = lastCall.id

\* a build with all four slots empty: the composite is wired to no manager
C9_Witness ==
  /\ lastCall.op = "CreateSktFontCollection"
  /\ lastCall.built
  /\ GetFontManagersCount = 0
  /\ skt_collection_ # NullSkt
  /\ Wired(skt_collection_) = <<Null, Null, Null, Null>>

\* the index in slots of the slot a setter assigns
SlotOf(op) ==
  CASE op = "SetupDefaultFontManager" -> 1
    [] op = "SetDefaultFontManager" -> 1
    [] op = "SetAssetFontManager" -> 2
    [] op = "SetDynamicFontManager" -> 3
    [] op = "SetTestFontManager" -> 4

\* the indices in slots of the slots queried before slot i
QueriedBefore(i) ==
  CASE i = 3 -> {}
    [] i = 2 -> {3}
    [] i = 4 -> {3, 2}
    [] i = 1 -> {3, 2, 4}

RemoveAt(seq, k) ==
  [j \in 1..(Len(seq) - 1) |-> IF j < k THEN seq[j] ELSE seq[j + 1]]

\* C10: a setter that stores a null manager (SetupDefaultFontManager when
\* the platform factory returns none) leaves its slot null whatever it held,
\* leaves the other three slots unchanged, removes the slot's entry from
\* GetFontManagerOrder, lowers GetFontManagersCount by one exactly when the
\* slot was set, and leaves no composite cached.
C10_NullClearsSlot ==
  [][ (lastCall'.op \in Setters /\ lastCall'.arg = Null)
        => LET i == SlotOf(lastCall'.op)
               wasSet == slots[i] # Null
               pos == Cardinality({j \in QueriedBefore(i) : slots[j] # Null}) + 1
           IN  /\ slots'[i] = Null
               /\ \A j \in 1..4 : j # i => slots'[j] = slots[j]
               /\ GetFontManagerOrder' =
                    IF wasSet THEN RemoveAt(GetFontManagerOrder, pos)
                    ELSE GetFontManagerOrder
               /\ GetFontManagersCount' =
                    GetFontManagersCount - (IF wasSet THEN 1 ELSE 0)
               /\ skt_collection_' = NullSkt
    ]_vars

\* the platform factory returned no manager after composite 1 was returned:
\* the default slot is empty, the others still set, no composite cached
C10_Witness ==
  /\ lastCall.op = "SetupDefaultFontManager"
  /\ lastCall.arg = Null
  /\ default_font_manager_ = Null
  /\ GetFontManagerOrder = <<1, 2, 1>>
  /\ returned = 1
  /\ skt_collection_ = NullSkt

\* C11: the member destruction that releases the registry's reference to
\* the composite comes only after the destructor body, and a composite it
\* releases has had its per-family caches cleared by that body; the body
\* keeps a cached composite cached (same identity, wiring and fallback),
\* clears nothing and caches nothing when none is cached, and allocates
\* nothing.
C11_ClearBeforeRelease ==
  [][ /\ (lastCall'.op = "~FontCollection")
          => /\ skt_collection_' =
                  IF skt_collection_ # NullSkt
                  THEN [skt_collection_ EXCEPT !.caches = {}]
                  ELSE NullSkt
             /\ next_id' = next_id
      /\ (lastCall'.op = "~members")
          => /\ lastCall.op = "~FontCollection"
             /\ skt_collection_ # NullSkt => skt_collection_.caches = {}
             /\ skt_collection_' = NullSkt
             /\ next_id' = next_id
    ]_vars

\* the registry was destroyed right after composite 1 was returned: the
\* reference is released, one composite was ever allocated
C11_Witness ==
  /\ lastCall.op = "~members"
  /\ returned = 1 /\ since = {}
  /\ next_id = 2
  /\ skt_collection_ = NullSkt

\* C12: a GetFontManagersCount or GetFontManagerOrder call leaves the four
\* slots, the fallback flag and the cached composite (presence, identity and
\* content) unchanged and allocates nothing.
C12_QueriesArePure ==
  [][ (lastCall'.op \in {"GetFontManagersCount", "GetFontManagerOrder"})
        => /\ slots' = slots
           /\ enable_font_fallback_' = enable_font_fallback_
           /\ skt_collection_' = skt_collection_
           /\ next_id' = next_id
    ]_vars

\* GetFontManagerOrder was called with composite 1 cached and a manager set:
\* the composite is still cached and nothing else was allocated
C12_Witness ==
  /\ lastCall.op = "GetFontManagerOrder"
  /\ Len(lastCall.order) = 1
  /\ returned = 1 /\ since = {}
  /\ Ref(skt_collection_) = 1
  /\ next_id = 2

\* C13: the registry caches at most one composite (none before the first
\* build), a cached composite is wired to exactly the current four slots, and
\* a slot setter never keeps a composite: it leaves none cached.
C13_NoStaleCache ==
  [][ /\ skt_collection_' # NullSkt
          => /\ Wired(skt_collection_') = slots'
             /\ Ref(skt_collection_') \in 1..(next_id' - 1)
      /\ lastCall'.op \in Setters => skt_collection_' = NullSkt
    ]_vars

\* the second composite, cached after the slots were changed, with the
\* dynamic and asset slots holding different managers
C13_Witness ==
  /\ Ref(skt_collection_) = 2
  /\ dynamic_font_manager_ = 2 /\ asset_font_manager_ = 1
  /\ skt_collection_.dynamic = 2 /\ skt_collection_.asset = 1
  /\ Wired(skt_collection_) = slots

\* C14: enable_font_fallback_ is true until DisableFontFallback is called,
\* and in every state with a composite cached the composite's fallback
\* setting equals enable_font_fallback_.
C14_FallbackCoherence ==
  /\ ~disable_called => enable_font_fallback_
  /\ skt_collection_ # NullSkt
       => skt_collection_.fallback = enable_font_fallback_

\* a composite built with fallback enabled and then disabled in place
\* agrees with the flag
C14_Witness ==
  /\ lastCall.op = "DisableFontFallback"
  /\ returned = 1 /\ Ref(skt_collection_) = 1
  /\ ~enable_font_fallback_
  /\ ~skt_collection_.fallback

\* C16: ClearFontFamilyCache with no composite cached changes nothing of
\* the registry: none is cached afterwards, nothing is allocated, the four
\* slots and the fallback flag keep their values; the next
\* CreateSktFontCollection then allocates a fresh composite.
C16_ClearWhenAbsentIsNoOp ==
  [][ /\ (lastCall'.op = "ClearFontFamilyCache" /\ skt_collection_ = NullSkt)
          => /\ skt_collection_' = NullSkt
             /\ next_id' = next_id
             /\ slots' = slots
             /\ enable_font_fallback_' = enable_font_fallback_
      /\ (lastCall'.op = "CreateSktFontCollection"
            /\ lastCall.op = "ClearFontFamilyCache" /\ skt_collection_ = NullSkt)
          => /\ lastCall'.built
             /\ lastCall'.id = next_id
             /\ next_id' = next_id + 1
    ]_vars

\* ClearFontFamilyCache was called before any composite was built, with a
\* manager set: still none is cached and none was allocated
C16_Witness ==
  /\ lastCall.op = "ClearFontFamilyCache"
  /\ skt_collection_ = NullSkt
  /\ next_id = 1 /\ returned = 0
  /\ asset_font_manager_ # Null

\* C17: a slot setter leaves the other three slots and the fallback flag
\* unchanged; DisableFontFallback and CreateSktFontCollection leave all four
\* slots, hence GetFontManagerOrder and GetFontManagersCount, unchanged.
C17_SetterFrame ==
  [][ /\ lastCall'.op \in Setters
          => /\ \A j \in 1..4 : j # SlotOf(lastCall'.op) => slots'[j] = slots[j]
             /\ enable_font_fallback_' = enable_font_fallback_
      /\ lastCall'.op \in {"DisableFontFallback", "CreateSktFontCollection"}
          => /\ slots' = slots
             /\ GetFontManagerOrder' = GetFontManagerOrder
             /\ GetFontManagersCount' = GetFontManagersCount
    ]_vars

\* a build with all four slots set and fallback disabled: the slots still
\* hold their managers
C17_Witness ==
  /\ lastCall.op = "CreateSktFontCollection"
  /\ lastCall.built
  /\ ~enable_font_fallback_
  /\ slots = <<1, 2, 1, 2>>
  /\ GetFontManagersCount = 4

\* the composite the registry builds, identity aside, from the four slots,
\* the fallback flag and the platform's family list
Configured(default, asset, dynamic, test, fallback, families) ==
  [id |-> 0, default |-> default, families |-> families, asset |-> asset,
   dynamic |-> dynamic, test |-> test, fallback |-> fallback, caches |-> {}]

\* C18: the content (wired managers, family list, fallback setting, empty
\* caches) of a freshly built composite is a function of the current four
\* slots, the fallback flag and the platform's family list alone, whatever
\* calls led to that state.
C18_DeterministicBuild ==
  [][ (lastCall'.op = "CreateSktFontCollection" /\ lastCall'.built)
        => [skt_collection_' EXCEPT !.id = 0] =
             Configured(default_font_manager_', asset_font_manager_',
                        dynamic_font_manager_', test_font_manager_',
                        enable_font_fallback_', platform_families')
    ]_vars

\* the second composite, built after a mutator followed the first, from
\* slots one of which is empty, with the two-name family list
C18_Witness ==
  /\ lastCall.op = "CreateSktFontCollection"
  /\ lastCall.built /\ lastCall.id = 2
  /\ slots = <<2, Null, 1, 1>>
  /\ skt_collection_.families = <<"Arial", "Helvetica">>
  /\ skt_collection_.fallback

\* C15 as stated: a cached composite carries the family list that the
\* platform source gave when SetupDefaultFontManager last ran, whatever the
\* source has become since.
C15_FamiliesFixedAtSetup ==
  (skt_collection_ # NullSkt /\ families_at_setup # <<>>)
    => skt_collection_.families = families_at_setup

\* C15 amended: the family list is read at every build: a freshly built
\* composite carries the list the platform source gives at that build, and a
\* composite keeps its list for as long as it stays cached.
C15_FamiliesReadAtBuild ==
  [][ /\ (lastCall'.op = "CreateSktFontCollection" /\ lastCall'.built)
          => skt_collection_'.families = platform_families
      /\ (skt_collection_ # NullSkt /\ skt_collection_' # NullSkt
            /\ Ref(skt_collection_') = Ref(skt_collection_))
          => skt_collection_'.families = skt_collection_.families
    ]_vars

\* a composite built after the platform source changed following
\* SetupDefaultFontManager: it carries the list of the build, not of the setup
C15_Witness ==
  /\ lastCall.op = "CreateSktFontCollection"
  /\ lastCall.built
  /\ default_font_manager_ # Null
  /\ families_at_setup = <<"Roboto">>
  /\ platform_families = <<"Arial", "Helvetica">>
  /\ skt_collection_.families = <<"Arial", "Helvetica">>

\* C19: with the two threads unsynchronized, CreateSktFontCollection
\* dereferences a null skt_collection_ while wiring, or returns a null
\* composite, only if steps of SetAssetFontManager overlapped that call; a call
\* that no setter step overlapped returns the cached composite, non-null and
\* wired to the current four slots.
C19_BadOnlyWhenInterleaved ==
  [][ /\ pc_create' = "fault" => overlapped'
      /\ (pc_create = "L110" /\ pc_create' = "idle")
          => /\ returned' = 0 => overlapped'
             /\ ~overlapped'
                  => /\ returned' # 0
                     /\ returned' = Ref(skt_collection_')
                     /\ Wired(skt_collection_') = slots'
    ]_vars

\* SetAssetFontManager ran whole (slot written, cache reset) inside a build:
\* the building thread went on to wire a composite that is no longer there
C19_Witness ==
  /\ pc_create = "fault"
  /\ overlapped
  /\ pc_set = "idle"
  /\ asset_font_manager_ # Null
  /\ skt_collection_ = NullSkt
  /\ next_id = 2

\* the cache reset fell between the last wiring step and the return: the
\* call returned a null composite
C19_ReturnedAbsent ==
  /\ pc_create = "idle"
  /\ lastCall.op = "CreateSktFontCollection"
  /\ lastCall.built
  /\ returned = 0
  /\ overlapped
  /\ next_id = 2

====
